---- MODULE Spec2Model ----
(***************************************************************************)
(* The biosecurity case-file tools (src/tools.py) and the analysis         *)
(* pipeline (src/agent.py) as a state machine.                             *)
(*                                                                         *)
(* A Python str is a sequence of one-character strings, so that `in`,      *)
(* split, strip and lower are computed character by character.  A Python   *)
(* dict is a function whose DOMAIN is the set of keys present, so that     *)
(* "key missing" and "key present with value None" are different states.   *)
(***************************************************************************)
EXTENDS Integers, Sequences, FiniteSets, TLC

VARIABLES
    state,      \* tool_context.state: the session dict ("caseFile", "mpi_summary")
    ret,        \* what the last tool call returned (or the exception it raised)
    call,       \* the name of the last tool called
    effects,    \* the external side effects the last tool call triggered
    uuids,      \* how many caseIds uuid.uuid4() has handed out so far
    pipeline,   \* the run of analysis_pipeline_agent: position and history
    reader,     \* what the holder of an earlier reference to the CaseFile sees
    forecasts,  \* the rows the last forecast query answered with
    summary_of  \* the case and the species the stored mpi_summary was fetched for

vars == <<state, ret, call, effects, uuids, pipeline, reader, forecasts, summary_of>>

---------------------------------------------------------------------------
(* Bounds *)

\* how many CaseFiles create_case_file may create in one session
MaxCases == 2

\* how many fragments a generated text is put together from
MaxFragments == 2

\* the largest wind component of a forecast row, in m/s
MaxWind == 5

---------------------------------------------------------------------------
(* Python values *)

None == [none |-> TRUE]

EmptyDict == << >>

\* d[k] = v on a dict
Put(d, k, v) == [x \in (DOMAIN d) \cup {k} |-> IF x = k THEN v ELSE d[x]]

\* d.get(k, default)
Get(d, k, default) == IF k \in DOMAIN d THEN d[k] ELSE default

---------------------------------------------------------------------------
(* Python str operations, on sequences of characters *)

\* whether p occurs in s at index i (1-based)
OccursAt(s, p, i) ==
    /\ i >= 1
    /\ i + Len(p) - 1 <= Len(s)
    /\ \A j \in 1..Len(p) : s[i + j - 1] = p[j]

\* `p in s`
Contains(s, p) == \E i \in 1..(Len(s) + 1) : OccursAt(s, p, i)

\* s.find(p), 1-based; 0 when p does not occur
Find(s, p) ==
    IF Contains(s, p)
    THEN CHOOSE i \in 1..(Len(s) + 1) :
            /\ OccursAt(s, p, i)
            /\ \A k \in 1..(i - 1) : ~OccursAt(s, p, k)
    ELSE 0

\* s[a:b] with 1-based inclusive bounds
Slice(s, a, b) == IF a > b THEN << >> ELSE SubSeq(s, a, b)

\* s.split(sep): every piece between non-overlapping occurrences, left to right
RECURSIVE Split(_, _)
Split(s, sep) ==
    LET i == Find(s, sep)
    IN  IF i = 0
        THEN << s >>
        ELSE << Slice(s, 1, i - 1) >> \o Split(Slice(s, i + Len(sep), Len(s)), sep)

Whitespace == {" "}

RECURSIVE LStrip(_)
LStrip(s) == IF s # << >> /\ Head(s) \in Whitespace THEN LStrip(Tail(s)) ELSE s

RECURSIVE RStrip(_)
RStrip(s) ==
    IF s # << >> /\ s[Len(s)] \in Whitespace THEN RStrip(Slice(s, 1, Len(s) - 1)) ELSE s

\* s.strip()
Strip(s) == RStrip(LStrip(s))

LowerChar(c) ==
    CASE c = "A" -> "a" [] c = "B" -> "b" [] c = "C" -> "c" [] c = "D" -> "d"
      [] c = "E" -> "e" [] c = "F" -> "f" [] c = "G" -> "g" [] c = "H" -> "h"
      [] c = "I" -> "i" [] c = "J" -> "j" [] c = "K" -> "k" [] c = "L" -> "l"
      [] c = "M" -> "m" [] c = "N" -> "n" [] c = "O" -> "o" [] c = "P" -> "p"
      [] c = "Q" -> "q" [] c = "R" -> "r" [] c = "S" -> "s" [] c = "T" -> "t"
      [] c = "U" -> "u" [] c = "V" -> "v" [] c = "W" -> "w" [] c = "X" -> "x"
      [] c = "Y" -> "y" [] c = "Z" -> "z" [] OTHER -> c

\* s.lower()
Lower(s) == [i \in 1..Len(s) |-> LowerChar(s[i])]

---------------------------------------------------------------------------
(* String literals of src/tools.py *)

IS_A == <<"i","s"," ","a"," ">>
PAREN == <<" ","(">>
UNKNOWN_NAME == <<"U","n","k","n","o","w","n">>
FALL_ARMYWORM == <<"S","p","o","d","o","p","t","e","r","a"," ","f","r","u","g","i","p","e","r","d","a">>
STINK_BUG == <<"B","r","o","w","n"," ","M","a","r","m","o","r","a","t","e","d"," ","S","t","i","n","k"," ","B","u","g">>
HALYOMORPHA == <<"H","a","l","y","o","m","o","r","p","h","a"," ","h","a","l","y","s">>
KW_MODERATE == <<"m","o","d","e","r","a","t","e">>
KW_HIGH == <<"h","i","g","h">>
KW_CRITICAL == <<"c","r","i","t","i","c","a","l">>
KW_LOW == <<"l","o","w">>
KW_VINEYARDS == <<"v","i","n","e","y","a","r","d","s">>

ArmywormHosts == <<"maize", "sweet corn", "sorghum">>
StinkBugHosts == <<"grapes", "apples", "pears", "citrus", "kiwifruit", "corn", "tomatoes", "peppers">>

---------------------------------------------------------------------------
(* Fact extractors *)

\* the common name parsed out of the identification text
CommonName(identification) ==
    IF Contains(identification, IS_A)
    THEN Strip(Split(Split(identification, IS_A)[2], PAREN)[1])
    ELSE UNKNOWN_NAME

\* the alert level the if/elif chain picks
AlertLevel(risk_assessment) ==
    LET low == Lower(risk_assessment)
    IN  IF Contains(low, KW_MODERATE) THEN "MODERATE"
        ELSE IF Contains(low, KW_HIGH) THEN "HIGH"
        ELSE IF Contains(low, KW_CRITICAL) THEN "CRITICAL"
        ELSE IF Contains(low, KW_LOW) THEN "LOW"
        ELSE "UNKNOWN"

\* a scan for the asset term as it is spelt, in lower case
NearbyAssetsAsSpelt(risk_assessment) ==
    IF Contains(risk_assessment, KW_VINEYARDS) THEN << "vineyards" >> ELSE << >>

\* the nearby assets found in the narrative
NearbyAssets(risk_assessment) ==
    IF Contains(Lower(risk_assessment), KW_VINEYARDS) THEN << "vineyards" >> ELSE << >>

\* a table that classifies a species only once a summary has been fetched
ThreatProfileDataBySummary(species_name, mpi_summary) ==
    IF mpi_summary = ""
    THEN [statusNZ |-> "Benign",
          threatLevel |-> "LOW",
          hosts |-> << >>,
          mpi_summary |-> mpi_summary]
    ELSE IF Contains(species_name, FALL_ARMYWORM)
    THEN [statusNZ |-> "Unwanted Organism - Not Established",
          threatLevel |-> "HIGH",
          hosts |-> ArmywormHosts,
          impact |-> "Fall armyworm",
          mpi_summary |-> mpi_summary]
    ELSE IF Contains(species_name, STINK_BUG) \/ Contains(species_name, HALYOMORPHA)
    THEN [statusNZ |-> "Unwanted Organism - Not Established",
          threatLevel |-> "HIGH",
          hosts |-> StinkBugHosts,
          impact |-> "Brown Marmorated Stink Bug",
          mpi_summary |-> mpi_summary]
    ELSE [statusNZ |-> "Benign",
          threatLevel |-> "LOW",
          hosts |-> << >>,
          mpi_summary |-> mpi_summary]

\* a table that knows the stink bug by its scientific name only
ThreatProfileDataOneAlias(species_name, mpi_summary) ==
    IF Contains(species_name, FALL_ARMYWORM)
    THEN [statusNZ |-> "Unwanted Organism - Not Established",
          threatLevel |-> "HIGH",
          hosts |-> ArmywormHosts,
          impact |-> "Fall armyworm",
          mpi_summary |-> mpi_summary]
    ELSE IF Contains(species_name, HALYOMORPHA)
    THEN [statusNZ |-> "Unwanted Organism - Not Established",
          threatLevel |-> "HIGH",
          hosts |-> StinkBugHosts,
          impact |-> "Brown Marmorated Stink Bug",
          mpi_summary |-> mpi_summary]
    ELSE [statusNZ |-> "Benign",
          threatLevel |-> "LOW",
          hosts |-> << >>,
          mpi_summary |-> mpi_summary]

\* the mock threat profile of a species
ThreatProfileData(species_name, mpi_summary) ==
    IF Contains(species_name, FALL_ARMYWORM)
    THEN [statusNZ |-> "Unwanted Organism - Not Established",
          threatLevel |-> "HIGH",
          hosts |-> ArmywormHosts,
          impact |-> "Fall armyworm",
          mpi_summary |-> mpi_summary]
    ELSE IF Contains(species_name, STINK_BUG) \/ Contains(species_name, HALYOMORPHA)
    THEN [statusNZ |-> "Unwanted Organism - Not Established",
          threatLevel |-> "HIGH",
          hosts |-> StinkBugHosts,
          impact |-> "Brown Marmorated Stink Bug",
          mpi_summary |-> mpi_summary]
    ELSE [statusNZ |-> "Benign",
          threatLevel |-> "LOW",
          hosts |-> << >>,
          mpi_summary |-> mpi_summary]

---------------------------------------------------------------------------
(* What the external collaborators can hand to the tools *)

\* image_uri arguments: an empty string and the default image
DefaultImage == "gs://new-zealand-insects/insect1.png"
ImageUris == {"", DefaultImage}

\* texts the identification model can answer with
IdMoth == IS_A \o <<"M","o","t","h">> \o PAREN \o FALL_ARMYWORM \o <<")">>
IdTwice == IS_A \o <<" ","A","n","t"," ">> \o IS_A \o <<"p","e","s","t">>
IdLowerCase == Lower(FALL_ARMYWORM)
Identifications == {IdMoth, HALYOMORPHA}

\* risk narratives the risk-assessment agent can write
RiskModerateCritical == <<"M","o","d","e","r","a","t","e"," ","t","o"," ">> \o KW_CRITICAL
RiskHighVineyards == <<"H","I","G","H"," ","V","i","n","e","y","a","r","d","s">>
RiskSlow == <<"s">> \o KW_LOW
RiskCalm == <<"c","a","l","m">>
Narratives == {RiskModerateCritical, RiskCalm}

\* every text put together from at most n of the fragments
RECURSIVE Texts(_, _)
Texts(fragments, n) ==
    IF n = 0
    THEN {<< >>}
    ELSE LET shorter == Texts(fragments, n - 1)
         IN  shorter \cup {t \o f : t \in shorter, f \in fragments}

IdentificationFragments ==
    {IS_A, PAREN, FALL_ARMYWORM, HALYOMORPHA, STINK_BUG, <<" ">>}
AllIdentifications ==
    Texts(IdentificationFragments, MaxFragments) \cup Identifications \cup {IdTwice, IdLowerCase}

NarrativeFragments ==
    {KW_MODERATE, <<"C","R","I","T","I","C","A","L">>, <<"H","i","g","h">>, KW_LOW,
     <<"V","i","n","e","y","a","r","d","s">>}
AllNarratives ==
    Texts(NarrativeFragments, MaxFragments) \cup Narratives \cup {RiskHighVineyards, RiskSlow}

\* summaries the summarization model can answer with
Summaries == {"summary A", "summary B"}

\* coordinates: what the geocoder answers and what the agent passes on
Latitudes == {-39, -41}
Longitudes == {176}

\* location strings the user gives
Locations == {"Napier"}

\* 10m_u_component_of_wind, 10m_v_component_of_wind of a forecast row
WindComponents == (-MaxWind) .. MaxWind

---------------------------------------------------------------------------
(* The wind direction column of the forecast query, in whole degrees.  The *)
(* angle of a vector on an axis or a diagonal is exact; any other angle is *)
(* known by the octant it lies in, and is any whole degree of that octant. *)

\* ATAN2(y, x) * 180 / 3.14159265359
ATAN2_DEGREES(y, x) ==
    CASE x > 0 /\ y = 0 -> {0}
      [] x > 0 /\ y > 0 -> IF y < x THEN 1 .. 44 ELSE IF y = x THEN {45} ELSE 46 .. 89
      [] x = 0 /\ y > 0 -> {90}
      [] x < 0 /\ y > 0 -> IF y > -x THEN 91 .. 134 ELSE IF y = -x THEN {135} ELSE 136 .. 179
      [] x < 0 /\ y = 0 -> {180}
      [] x < 0 /\ y < 0 -> IF y > x THEN (-179) .. (-136)
                           ELSE IF y = x THEN {-135} ELSE (-134) .. (-91)
      [] x = 0 /\ y < 0 -> {-90}
      [] x > 0 /\ y < 0 -> IF -y > x THEN (-89) .. (-46)
                           ELSE IF -y = x THEN {-45} ELSE (-44) .. (-1)
      [] OTHER -> {0}

\* MOD(x, y) of BigQuery: the remainder has the sign of x
MOD(x, y) == IF x >= 0 THEN x % y ELSE -((-x) % y)

\* a column that gives the direction the wind blows to
wind_direction_degrees_downwind(u, v) == {MOD(90 - a, 360) : a \in ATAN2_DEGREES(v, u)}

\* MOD(CAST(270 - (ATAN2(v, u) * 180 / 3.14159265359) AS NUMERIC), 360)
wind_direction_degrees(u, v) == {MOD(270 - a, 360) : a \in ATAN2_DEGREES(v, u)}

---------------------------------------------------------------------------
(* Tool results *)

Success(message) == [status |-> "success", message |-> message]
Error(message) == [status |-> "error", message |-> message]
\* the tool did not return: the exception left it uncaught
Raised(exception) == [status |-> "raised", message |-> exception]

NoEffects == {}

\* tool_context.state.get("caseFile", {})
CaseFile == Get(state, "caseFile", EmptyDict)

\* `k in case_file for k in [...]` of the reporting gate
ReportSections == {"identification", "threatProfile", "riskAssessment", "location"}

---------------------------------------------------------------------------
(* The tools of src/tools.py.  Each leaves `pipeline`, `reader`,           *)
(* `forecasts` and `summary_of` to its caller.                             *)

get_mpi_summary(species_name) ==
    /\ call' = [tool |-> "get_mpi_summary", species_name |-> species_name]
    /\ effects' = NoEffects
    /\ UNCHANGED uuids
    /\ \/ \E summary \in Summaries :
            /\ state' = Put(state, "mpi_summary", summary)
            /\ ret' = Success("summary") @@ [summary |-> summary]
       \/ \* generate_content raises: nothing catches it
          /\ ret' = Raised("APIError")
          /\ UNCHANGED state

\* a forecast tool that lets the exception of a failed query through
get_weather_forecast_raising(latitude, longitude) ==
    /\ call' = [tool |-> "get_weather_forecast", latitude |-> latitude, longitude |-> longitude]
    /\ effects' = NoEffects
    /\ UNCHANGED uuids
    /\ \/ LET case_file == Put(CaseFile, "location", [lat |-> latitude, lon |-> longitude])
          IN  /\ state' = Put(state, "caseFile", case_file)
              /\ ret' = Success("forecasts")
       \/ /\ ret' = Raised("GoogleAPIError")
          /\ UNCHANGED state

\* a forecast tool that writes the location before it runs the query
get_weather_forecast_location_first(latitude, longitude) ==
    /\ call' = [tool |-> "get_weather_forecast", latitude |-> latitude, longitude |-> longitude]
    /\ effects' = NoEffects
    /\ UNCHANGED uuids
    /\ LET case_file == Put(CaseFile, "location", [lat |-> latitude, lon |-> longitude])
       IN  state' = Put(state, "caseFile", case_file)
    /\ \/ ret' = Success("forecasts")
       \/ ret' = Error("Failed to retrieve weather forecast")

get_weather_forecast(latitude, longitude) ==
    /\ call' = [tool |-> "get_weather_forecast", latitude |-> latitude, longitude |-> longitude]
    /\ effects' = NoEffects
    /\ UNCHANGED uuids
    /\ \/ \* the query answers
          LET case_file == Put(CaseFile, "location", [lat |-> latitude, lon |-> longitude])
          IN  /\ state' = Put(state, "caseFile", case_file)
              /\ ret' = Success("forecasts")
       \/ \* the query fails: except Exception
          /\ ret' = Error("Failed to retrieve weather forecast")
          /\ UNCHANGED state

cross_reference_biosecurity_databases ==
    /\ call' = [tool |-> "cross_reference_biosecurity_databases"]
    /\ effects' = NoEffects
    /\ UNCHANGED uuids
    /\ LET case_file == CaseFile
       IN  IF case_file = EmptyDict \/ "identification" \notin DOMAIN case_file
           THEN /\ ret' = Error("No identification found in CaseFile.")
                /\ UNCHANGED state
           ELSE IF case_file["identification"] = None
           THEN \* None["topGuess"]
                /\ ret' = Raised("TypeError")
                /\ UNCHANGED state
           ELSE LET species_name == case_file["identification"]["topGuess"]
                    mpi_summary == Get(state, "mpi_summary", "")
                    new_case_file == Put(case_file, "threatProfile",
                                         ThreatProfileData(species_name, mpi_summary))
                IN  /\ state' = Put(state, "caseFile", new_case_file)
                    /\ ret' = Success("Threat level assessed")

\* a report that renders a section that is None as an empty one
RenderableWithNone(case_file) == ReportSections \subseteq DOMAIN case_file

\* whether the f-string of the report can be rendered: no section is None
Renderable(case_file) == \A k \in ReportSections : case_file[k] # None

\* the status generate_and_send_report writes
ReportedStatus == "Reported"

generate_and_send_report ==
    /\ call' = [tool |-> "generate_and_send_report"]
    /\ UNCHANGED uuids
    /\ LET case_file == CaseFile
       IN  IF ~(ReportSections \subseteq DOMAIN case_file)
           THEN /\ ret' = Error("CaseFile is incomplete for final reporting.")
                /\ effects' = NoEffects
                /\ UNCHANGED state
           ELSE IF ~Renderable(case_file)
           THEN \* None['lat'], None['alertLevel'], ...
                /\ ret' = Raised("TypeError")
                /\ effects' = NoEffects
                /\ UNCHANGED state
           ELSE \/ \* the report is written, uploaded and the temporary file removed
                   /\ state' = Put(state, "caseFile", Put(case_file, "status", ReportedStatus))
                   /\ effects' = {"publisher_called", "report_published", "email", "ticket"}
                   /\ ret' = Success("Report generated") @@ [report_url |-> "report_url"]
                \/ \* open() or write() fails before the upload
                   /\ ret' = Error("An unexpected error occurred")
                   /\ effects' = NoEffects
                   /\ UNCHANGED state
                \/ \* gcloud fails: CalledProcessError, FileNotFoundError
                   /\ ret' = Error("Failed to process report with gcloud")
                   /\ effects' = {"publisher_called"}
                   /\ UNCHANGED state
                \/ \* the upload succeeds and os.remove fails
                   /\ ret' = Error("An unexpected error occurred")
                   /\ effects' = {"publisher_called", "report_published"}
                   /\ UNCHANGED state

identify_insect_with_google_search ==
    /\ call' = [tool |-> "identify_insect_with_google_search"]
    /\ effects' = NoEffects
    /\ UNCHANGED <<uuids, state>>
    /\ LET case_file == CaseFile
       IN  IF "imageUri" \notin DOMAIN case_file \/ case_file["imageUri"] = ""
           THEN ret' = Error("No image URI found in CaseFile.")
           ELSE \/ \E text \in Identifications :
                     ret' = Success("identification") @@ [identification |-> text]
                \/ \* generate_content raises: nothing catches it
                   ret' = Raised("APIError")

\* the identification section written for an identification text
IdentificationSection(identification) ==
    [topGuess |-> identification,
     commonName |-> CommonName(identification),
     confidence |-> "HIGH"]

\* an identification update that starts a CaseFile of its own
update_case_file_with_identification_afresh(identification) ==
    /\ call' = [tool |-> "update_case_file_with_identification", identification |-> identification]
    /\ effects' = NoEffects
    /\ UNCHANGED uuids
    /\ LET case_file == Put(EmptyDict, "identification", IdentificationSection(identification))
       IN  state' = Put(state, "caseFile", case_file)
    /\ ret' = Success("CaseFile updated with identification.")

update_case_file_with_identification(identification) ==
    /\ call' = [tool |-> "update_case_file_with_identification", identification |-> identification]
    /\ effects' = NoEffects
    /\ UNCHANGED uuids
    /\ LET case_file == Put(CaseFile, "identification", IdentificationSection(identification))
       IN  state' = Put(state, "caseFile", case_file)
    /\ ret' = Success("CaseFile updated with identification.")

\* the riskAssessment section written for a risk narrative
RiskSection(risk_assessment) ==
    [summary |-> risk_assessment,
     alertLevel |-> AlertLevel(risk_assessment),
     nearbyAssets |-> NearbyAssets(risk_assessment)]

\* a risk update that puts the case back to its first status
update_case_file_with_risk_assessment_restarting(risk_assessment) ==
    /\ call' = [tool |-> "update_case_file_with_risk_assessment", risk_assessment |-> risk_assessment]
    /\ effects' = NoEffects
    /\ UNCHANGED uuids
    /\ LET case_file == Put(CaseFile, "riskAssessment", RiskSection(risk_assessment))
       IN  state' = Put(state, "caseFile", Put(case_file, "status", "Initiated"))
    /\ ret' = Success("CaseFile updated with risk assessment.")

update_case_file_with_risk_assessment(risk_assessment) ==
    /\ call' = [tool |-> "update_case_file_with_risk_assessment", risk_assessment |-> risk_assessment]
    /\ effects' = NoEffects
    /\ UNCHANGED uuids
    /\ LET case_file == Put(CaseFile, "riskAssessment", RiskSection(risk_assessment))
       IN  state' = Put(state, "caseFile", case_file)
    /\ ret' = Success("CaseFile updated with risk assessment.")

\* a generator that hands out the caseId it handed out last
ReusedCaseId == IF uuids = 0 THEN uuids + 1 ELSE uuids

\* str(uuid.uuid4()): a caseId no earlier call was given
NewCaseId == uuids + 1

\* the CaseFile as create_case_file leaves it
InitialCaseFile(case_id, image_uri) ==
    [caseId |-> case_id,
     imageUri |-> image_uri,
     location |-> None,
     identification |-> None,
     threatProfile |-> None,
     riskAssessment |-> None,
     status |-> "Initiated"]

create_case_file(image_uri) ==
    /\ uuids < MaxCases
    /\ call' = [tool |-> "create_case_file", image_uri |-> image_uri]
    /\ effects' = NoEffects
    /\ uuids' = uuids + 1
    /\ LET initial_case_file == InitialCaseFile(NewCaseId, image_uri)
       IN  /\ state' = Put(state, "caseFile", initial_case_file)
           /\ ret' = Success("caseFile") @@ [caseFile |-> initial_case_file]

update_case_file_with_location(location) ==
    /\ call' = [tool |-> "update_case_file_with_location", location |-> location]
    /\ effects' = NoEffects
    /\ UNCHANGED uuids
    /\ LET case_file == CaseFile
       IN  IF case_file = EmptyDict
           THEN /\ ret' = Error("No CaseFile found in session state.")
                /\ UNCHANGED state
           ELSE \/ \* GOOGLE_MAPS_API_KEY is not set
                   /\ ret' = Error("GOOGLE_MAPS_API_KEY environment variable not set.")
                   /\ UNCHANGED state
                \/ \* the geocoder answers OK
                   \E lat \in Latitudes, lng \in Longitudes :
                      LET located == Put(case_file, "location",
                                         [description |-> location, lat |-> lat, lon |-> lng])
                      IN  /\ state' = Put(state, "caseFile", located)
                          /\ ret' = Success("caseFile") @@ [caseFile |-> located]
                \/ \* the geocoder answers with another status
                   /\ ret' = Error("Geocoding failed")
                   /\ UNCHANGED state
                \/ \* URLError
                   /\ ret' = Error("Failed to connect to Geocoding API")
                   /\ UNCHANGED state
                \/ \* KeyError, IndexError
                   /\ ret' = Error("Failed to parse geocoding response.")
                   /\ UNCHANGED state
                \/ \* JSONDecodeError
                   /\ ret' = Error("Invalid response from Geocoding API.")
                   /\ UNCHANGED state

---------------------------------------------------------------------------
(* The session: any tool, with any argument, at any time *)

\* no summary has been stored in the session
NoSummary == [caseId |-> 0, species_name |-> << >>]

\* nobody holds a reference to the CaseFile
NoReader == [held |-> FALSE, aliased |-> FALSE, obtained |-> EmptyDict, observes |-> EmptyDict]

Idle == [pc |-> "idle", step |-> 0, invoked |-> << >>,
         identification_failed |-> FALSE, status_before |-> "absent"]

Init ==
    /\ state = EmptyDict
    /\ ret = None
    /\ call = [tool |-> "none"]
    /\ effects = NoEffects
    /\ uuids = 0
    /\ pipeline = Idle
    /\ reader = NoReader
    /\ summary_of = NoSummary
    /\ forecasts = << >>

\* a tool called outside a pipeline run
Session(tool_call) == tool_call /\ UNCHANGED <<pipeline, reader, forecasts, summary_of>>

Next ==
    \/ \E image_uri \in ImageUris : Session(create_case_file(image_uri))
    \/ \E location \in Locations : Session(update_case_file_with_location(location))
    \/ Session(identify_insect_with_google_search)
    \/ \E identification \in Identifications :
          Session(update_case_file_with_identification(identification))
    \/ \E species_name \in Identifications : Session(get_mpi_summary(species_name))
    \/ Session(cross_reference_biosecurity_databases)
    \/ \E latitude \in Latitudes, longitude \in Longitudes :
          Session(get_weather_forecast(latitude, longitude))
    \/ \E risk_assessment \in Narratives :
          Session(update_case_file_with_risk_assessment(risk_assessment))
    \/ Session(generate_and_send_report)

Spec == Init /\ [][Next]_vars

---------------------------------------------------------------------------
(* The specialist agents of src/agent.py, each with its own tools *)

identification_agent == "identification_agent"
threat_analyst_agent == "threat_analyst_agent"
risk_assessment_agent == "risk_assessment_agent"
mpi_reporting_agent == "mpi_reporting_agent"

\* sub_agents of analysis_pipeline_agent, in order
sub_agents ==
    << identification_agent, threat_analyst_agent, risk_assessment_agent, mpi_reporting_agent >>

\* one specialist agent run on its own: it calls its tools as it likes
Alone(agent, tool_call) ==
    /\ pipeline.pc = agent
    /\ pipeline.step = 0
    /\ tool_call
    /\ UNCHANGED <<pipeline, reader, forecasts, summary_of>>

\* a CaseFile whose identification section has been written
IdentifiedCaseFile(identification) ==
    Put(InitialCaseFile(1, DefaultImage), "identification", IdentificationSection(identification))

InitAgents ==
    /\ \E i \in DOMAIN sub_agents : pipeline = [Idle EXCEPT !.pc = sub_agents[i]]
    /\ uuids = 1
    /\ IF pipeline.pc = threat_analyst_agent
       THEN \E identification \in AllIdentifications :
               state = [caseFile |-> IdentifiedCaseFile(identification)]
       ELSE state = [caseFile |-> InitialCaseFile(1, DefaultImage)]
    /\ ret = None
    /\ call = [tool |-> "none"]
    /\ effects = NoEffects
    /\ reader = NoReader
    /\ summary_of = NoSummary
    /\ forecasts = << >>

NextAgents ==
    \/ Alone(identification_agent, identify_insect_with_google_search)
    \/ \E identification \in AllIdentifications :
          Alone(identification_agent, update_case_file_with_identification(identification))
    \/ \E species_name \in Identifications :
          Alone(threat_analyst_agent, get_mpi_summary(species_name))
    \/ Alone(threat_analyst_agent, cross_reference_biosecurity_databases)
    \/ \E latitude \in Latitudes, longitude \in Longitudes :
          Alone(risk_assessment_agent, get_weather_forecast(latitude, longitude))
    \/ \E risk_assessment \in AllNarratives :
          Alone(risk_assessment_agent, update_case_file_with_risk_assessment(risk_assessment))
    \/ Alone(mpi_reporting_agent, generate_and_send_report)

SpecAgents == InitAgents /\ [][NextAgents]_vars

---------------------------------------------------------------------------
(* analysis_pipeline_agent: a SequentialAgent runs its sub_agents in order. *)
(* Each agent follows its instruction; a tool that returns an error is a    *)
(* result like any other to the agent, which goes on or ends its turn, and *)
(* the next agent then runs.  Only an exception ends the run.              *)

\* the status of the session's CaseFile, "absent" when it has none
StatusOf(s) == Get(Get(s, "caseFile", EmptyDict), "status", "absent")

\* the dispatcher's tools, before the pipeline runs
Dispatch(tool_call) ==
    /\ pipeline.pc = "idle"
    /\ tool_call
    /\ UNCHANGED <<pipeline, reader, forecasts, summary_of>>

StartPipeline ==
    /\ pipeline.pc = "idle"
    /\ pipeline' = [Idle EXCEPT !.pc = identification_agent, !.step = 1,
                                !.status_before = StatusOf(state)]
    /\ UNCHANGED <<state, ret, call, effects, uuids, reader, forecasts, summary_of>>

\* a pipeline that runs the risk assessor before the threat analyst
FollowingOutOfOrder(agent) ==
    CASE agent = identification_agent -> risk_assessment_agent
      [] agent = risk_assessment_agent -> threat_analyst_agent
      [] agent = threat_analyst_agent -> mpi_reporting_agent
      [] OTHER -> "done"

\* the agent that runs after `agent`, "done" after the last
Following(agent) ==
    LET i == CHOOSE k \in DOMAIN sub_agents : sub_agents[k] = agent
    IN  IF i = Len(sub_agents) THEN "done" ELSE sub_agents[i + 1]

\* how many tools the agent's instruction has it call
Instructed(agent) == IF agent = mpi_reporting_agent THEN 1 ELSE 2

\* where the run stands after the agent's tool call number k returned r.
\* After an error the identification agent has no 'identification' to pass on.
Positions(agent, k, r) ==
    LET go_on == IF k < Instructed(agent)
                 THEN [pc |-> agent, step |-> k + 1]
                 ELSE [pc |-> Following(agent), step |-> 1]
        end_turn == [pc |-> Following(agent), step |-> 1]
    IN  IF r.status = "raised" THEN {[pc |-> "aborted", step |-> 0]}
        ELSE IF r.status = "error"
        THEN IF agent = identification_agent THEN {end_turn} ELSE {go_on, end_turn}
        ELSE {go_on}

\* the agent at its instruction's step k calls a tool
AgentCalls(agent, k, tool_call) ==
    /\ pipeline.pc = agent
    /\ pipeline.step = k
    /\ tool_call
    /\ UNCHANGED <<reader, forecasts, summary_of>>
    /\ \E p \in Positions(agent, k, ret') :
          pipeline' = [pipeline EXCEPT
                          !.pc = p.pc,
                          !.step = p.step,
                          !.invoked = Append(@, call'.tool),
                          !.identification_failed =
                              @ \/ (agent = identification_agent /\ ret'.status # "success")]

\* the species name the threat analyst reads from the CaseFile
SpeciesNames ==
    LET case_file == CaseFile
    IN  IF "identification" \in DOMAIN case_file /\ case_file["identification"] # None
        THEN {case_file["identification"]["topGuess"]}
        ELSE Identifications

\* the coordinates the risk assessor reads from the CaseFile
Coordinates ==
    LET case_file == CaseFile
    IN  IF "location" \in DOMAIN case_file /\ case_file["location"] # None
        THEN {<<case_file["location"]["lat"], case_file["location"]["lon"]>>}
        ELSE Latitudes \X Longitudes

NextPipeline ==
    \/ \E image_uri \in ImageUris : Dispatch(create_case_file(image_uri))
    \/ \E location \in Locations : Dispatch(update_case_file_with_location(location))
    \/ StartPipeline
    \/ AgentCalls(identification_agent, 1, identify_insect_with_google_search)
    \/ AgentCalls(identification_agent, 2,
                  update_case_file_with_identification(ret.identification))
    \/ \E species_name \in SpeciesNames :
          AgentCalls(threat_analyst_agent, 1, get_mpi_summary(species_name))
    \/ AgentCalls(threat_analyst_agent, 2, cross_reference_biosecurity_databases)
    \/ \E c \in Coordinates :
          AgentCalls(risk_assessment_agent, 1, get_weather_forecast(c[1], c[2]))
    \/ \E risk_assessment \in Narratives :
          AgentCalls(risk_assessment_agent, 2,
                     update_case_file_with_risk_assessment(risk_assessment))
    \/ AgentCalls(mpi_reporting_agent, 1, generate_and_send_report)

SpecPipeline == Init /\ [][NextPipeline]_vars

---------------------------------------------------------------------------
(* A holder of a reference: somebody read tool_context.state["caseFile"]   *)
(* and keeps the dict it was given while the tools go on.                  *)

\* the tools that write into the dict they read from the session and store
\* that same dict again
InPlaceTools ==
    {"get_weather_forecast", "update_case_file_with_identification",
     "update_case_file_with_risk_assessment", "update_case_file_with_location"}

\* the tools that store a dict of their own: a copy.deepcopy or a new literal
ReplacingTools ==
    {"cross_reference_biosecurity_databases", "generate_and_send_report", "create_case_file"}

\* somebody reads the CaseFile from the session and keeps the reference
ObtainCaseFile ==
    /\ ~reader.held
    /\ "caseFile" \in DOMAIN state
    /\ reader' = [held |-> TRUE, aliased |-> TRUE, obtained |-> CaseFile, observes |-> CaseFile]
    /\ UNCHANGED <<state, ret, call, effects, uuids, pipeline, forecasts, summary_of>>

\* what the holder r sees after `tool` returned `result` and left `case_file`
\* in the session: its dict is the session's until a tool stores another
Observes(r, tool, result, case_file) ==
    IF ~r.aliased \/ result.status # "success" THEN r
    ELSE IF tool \in InPlaceTools THEN [r EXCEPT !.observes = case_file]
    ELSE IF tool \in ReplacingTools THEN [r EXCEPT !.aliased = FALSE]
    ELSE r

\* a tool called while the reference may be held
Held(tool_call) ==
    /\ tool_call
    /\ reader' = Observes(reader, call'.tool, ret', Get(state', "caseFile", EmptyDict))
    /\ UNCHANGED <<pipeline, forecasts, summary_of>>

\* the dispatcher has created the case: nobody holds its CaseFile yet
InitReaders ==
    /\ state = [caseFile |-> InitialCaseFile(1, DefaultImage)]
    /\ uuids = 1
    /\ ret = None
    /\ call = [tool |-> "none"]
    /\ effects = NoEffects
    /\ pipeline = Idle
    /\ reader = NoReader
    /\ summary_of = NoSummary
    /\ forecasts = << >>

NextReaders ==
    \/ \E location \in Locations : Held(update_case_file_with_location(location))
    \/ Held(update_case_file_with_identification(IdMoth))
    \/ Held(cross_reference_biosecurity_databases)
    \/ \E latitude \in Latitudes, longitude \in Longitudes :
          Held(get_weather_forecast(latitude, longitude))
    \/ Held(update_case_file_with_risk_assessment(RiskCalm))
    \/ Held(generate_and_send_report)
    \/ ObtainCaseFile

SpecReaders == InitReaders /\ [][NextReaders]_vars

---------------------------------------------------------------------------
(* The forecast query and the rows it answers with *)

\* the forecast table's row of the grid point nearest to the case
TableRow == forecasts[1]

\* get_weather_forecast on that row: the query computes the row's wind
\* direction from its wind components
Forecast(latitude, longitude) ==
    /\ get_weather_forecast(latitude, longitude)
    /\ IF ret'.status = "success"
       THEN \E direction \in wind_direction_degrees(TableRow.u_component_of_wind,
                                                    TableRow.v_component_of_wind) :
               forecasts' = << [u_component_of_wind |-> TableRow.u_component_of_wind,
                                v_component_of_wind |-> TableRow.v_component_of_wind,
                                wind_direction_degrees |-> direction] >>
       ELSE UNCHANGED forecasts
    /\ UNCHANGED <<pipeline, reader, summary_of>>

\* the dispatcher has created the case; the table holds any wind
InitForecasts ==
    /\ state = [caseFile |-> InitialCaseFile(1, DefaultImage)]
    /\ uuids = 1
    /\ ret = None
    /\ call = [tool |-> "none"]
    /\ effects = NoEffects
    /\ pipeline = Idle
    /\ reader = NoReader
    /\ summary_of = NoSummary
    /\ \E u \in WindComponents, v \in WindComponents :
          forecasts = << [u_component_of_wind |-> u, v_component_of_wind |-> v] >>

NextForecasts ==
    \E latitude \in Latitudes, longitude \in Longitudes : Forecast(latitude, longitude)

SpecForecasts == InitForecasts /\ [][NextForecasts]_vars

---------------------------------------------------------------------------
(* The threat analyst's tools over the cases of one session, with the case *)
(* and the species each stored summary was fetched for                     *)

\* a tool call, and what the session's mpi_summary belongs to after it
Summarised(tool_call) ==
    /\ tool_call
    /\ summary_of' = IF call'.tool = "get_mpi_summary" /\ ret'.status = "success"
                     THEN [caseId |-> Get(CaseFile, "caseId", 0),
                           species_name |-> call'.species_name]
                     ELSE summary_of
    /\ UNCHANGED <<pipeline, reader, forecasts>>

NextSummaries ==
    \/ Summarised(create_case_file(DefaultImage))
    \/ \E identification \in Identifications :
          Summarised(update_case_file_with_identification(identification))
    \/ \E species_name \in Identifications : Summarised(get_mpi_summary(species_name))
    \/ Summarised(cross_reference_biosecurity_databases)

SpecSummaries == Init /\ [][NextSummaries]_vars

---------------------------------------------------------------------------
(* Properties *)

CaseFileOf(s) == Get(s, "caseFile", EmptyDict)

\* whether the section is a dict: the key is there and its value is not None
Present(case_file, k) == k \in DOMAIN case_file /\ case_file[k] # None

\* the caseId of the session's CaseFile, 0 when it has none
CaseIdOf(s) == Get(CaseFileOf(s), "caseId", 0)

StatusRank(status) ==
    CASE status = "Initiated" -> 1
      [] status = "Identified" -> 2
      [] status = "ThreatAssessed" -> 3
      [] status = "RiskAssessed" -> 4
      [] status = "Reported" -> 5
      [] OTHER -> 0

\* C1: as long as the session holds the CaseFile of one caseId, no tool call
\* leaves its status lower in Initiated < Identified < ThreatAssessed <
\* RiskAssessed < Reported than it was before the call.
C1_StatusNeverRegresses ==
    [][CaseIdOf(state') = CaseIdOf(state)
         => StatusRank(StatusOf(state')) >= StatusRank(StatusOf(state))]_vars

\* a second case of the session has been created after the first and reported
C1_Witness ==
    /\ uuids = 2
    /\ CaseIdOf(state) = 2
    /\ StatusOf(state) = "Reported"
    /\ call.tool = "generate_and_send_report"

\* C2: generate_and_send_report on a CaseFile with one of identification,
\* threatProfile, riskAssessment, location missing or None returns an error
\* result, does not call the publisher and leaves the session unchanged.
C2_ReportingGate ==
    [][(/\ call'.tool = "generate_and_send_report"
        /\ \E k \in ReportSections : ~Present(CaseFileOf(state), k))
         => /\ ret'.status = "error"
            /\ "publisher_called" \notin effects'
            /\ state' = state]_vars

\* the alert level by the priority critical > high > moderate > low
PriorityAlertLevel(risk_assessment) ==
    LET low == Lower(risk_assessment)
    IN  IF Contains(low, KW_CRITICAL) THEN "CRITICAL"
        ELSE IF Contains(low, KW_HIGH) THEN "HIGH"
        ELSE IF Contains(low, KW_MODERATE) THEN "MODERATE"
        ELSE IF Contains(low, KW_LOW) THEN "LOW"
        ELSE "UNKNOWN"

\* C3: the alertLevel stored with a risk narrative is the highest-priority
\* keyword the narrative contains (critical > high > moderate > low, letter
\* case ignored), and UNKNOWN exactly when it contains none.
C3_AlertPriority ==
    LET case_file == CaseFileOf(state)
    IN  Present(case_file, "riskAssessment")
          => case_file["riskAssessment"]["alertLevel"]
               = PriorityAlertLevel(case_file["riskAssessment"]["summary"])

\* the tools of the stages after identification
LaterStageTools ==
    {"get_mpi_summary", "cross_reference_biosecurity_databases", "get_weather_forecast",
     "update_case_file_with_risk_assessment", "generate_and_send_report"}

\* C4: once the identification stage of a pipeline run has failed, no tool of
\* the threat-analysis, risk-assessment or reporting stage is invoked in that
\* run, and the CaseFile's status stays what it was before the run.
C4_OrchestratorAbort ==
    pipeline.identification_failed
      => /\ \A i \in DOMAIN pipeline.invoked : pipeline.invoked[i] \notin LaterStageTools
         /\ StatusOf(state) = pipeline.status_before

\* C5: a successful update_case_file_with_identification leaves status
\* Identified, cross_reference_biosecurity_databases ThreatAssessed,
\* update_case_file_with_risk_assessment RiskAssessed and
\* generate_and_send_report Reported.
C5_StagesAdvanceStatus ==
    [][ret'.status = "success"
         => /\ call'.tool = "update_case_file_with_identification"
                 => StatusOf(state') = "Identified"
            /\ call'.tool = "cross_reference_biosecurity_databases"
                 => StatusOf(state') = "ThreatAssessed"
            /\ call'.tool = "update_case_file_with_risk_assessment"
                 => StatusOf(state') = "RiskAssessed"
            /\ call'.tool = "generate_and_send_report"
                 => StatusOf(state') = "Reported"]_vars

\* C6: cross_reference_biosecurity_databases on a session whose CaseFile has
\* no identification.topGuess (no CaseFile, no identification key, or
\* identification None) returns an error result, raises nothing and writes no
\* threatProfile.
C6_ThreatPrecondition ==
    [][(/\ call'.tool = "cross_reference_biosecurity_databases"
        /\ ~Present(CaseFileOf(state), "identification"))
         => /\ ret'.status = "error"
            /\ CaseFileOf(state') = CaseFileOf(state)]_vars

\* C7: the risk-assessment stage writes no riskAssessment for a CaseFile
\* without a location: a CaseFile that holds a riskAssessment section holds a
\* location with lat and lon.
C7_RiskNeedsLocation ==
    LET case_file == CaseFileOf(state)
    IN  Present(case_file, "riskAssessment")
          => /\ Present(case_file, "location")
             /\ {"lat", "lon"} \subseteq DOMAIN case_file["location"]

\* C8: a CaseFile that holds an identification section holds a non-empty
\* imageUri.
C8_IdentificationNeedsImage ==
    LET case_file == CaseFileOf(state)
    IN  Present(case_file, "identification")
          => "imageUri" \in DOMAIN case_file /\ case_file["imageUri"] # ""

\* the step is a successful cross_reference_biosecurity_databases call
Classified ==
    /\ call'.tool = "cross_reference_biosecurity_databases"
    /\ ret'.status = "success"

\* C9 as stated: a species string containing "Spodoptera frugiperda" is
\* classified HIGH with hosts maize, sweet corn, sorghum; every other species
\* string is classified Benign, LOW, with no hosts.
C9_TwoWayClassification ==
    [][Classified
         => LET species_name == CaseFileOf(state)["identification"]["topGuess"]
                profile == CaseFileOf(state')["threatProfile"]
            IN  IF Contains(species_name, FALL_ARMYWORM)
                THEN /\ profile["threatLevel"] = "HIGH"
                     /\ profile["hosts"] = <<"maize", "sweet corn", "sorghum">>
                ELSE /\ profile["statusNZ"] = "Benign"
                     /\ profile["threatLevel"] = "LOW"
                     /\ profile["hosts"] = << >>]_vars

\* C9 (amended): a species string containing "Spodoptera frugiperda" is
\* classified HIGH with hosts maize, sweet corn, sorghum; otherwise one
\* containing "Brown Marmorated Stink Bug" or "Halyomorpha halys" is
\* classified HIGH with the stink bug's eight hosts; every other species string
\* is classified Benign, LOW, with no hosts.  The match is case-sensitive.
C9_Classification ==
    [][Classified
         => LET species_name == CaseFileOf(state)["identification"]["topGuess"]
                profile == CaseFileOf(state')["threatProfile"]
            IN  IF Contains(species_name, FALL_ARMYWORM)
                THEN /\ profile["threatLevel"] = "HIGH"
                     /\ profile["hosts"] = <<"maize", "sweet corn", "sorghum">>
                ELSE IF \/ Contains(species_name, STINK_BUG)
                        \/ Contains(species_name, HALYOMORPHA)
                THEN /\ profile["threatLevel"] = "HIGH"
                     /\ profile["hosts"] = <<"grapes", "apples", "pears", "citrus",
                                             "kiwifruit", "corn", "tomatoes", "peppers">>
                ELSE /\ profile["statusNZ"] = "Benign"
                     /\ profile["threatLevel"] = "LOW"
                     /\ profile["hosts"] = << >>]_vars

\* a species named "Brown Marmorated Stink Bug", not by its scientific name,
\* has been classified
C9_Witness ==
    LET case_file == CaseFileOf(state)
    IN  /\ call.tool = "cross_reference_biosecurity_databases"
        /\ ret.status = "success"
        /\ Contains(case_file["identification"]["topGuess"], STINK_BUG)
        /\ ~Contains(case_file["identification"]["topGuess"], HALYOMORPHA)
        /\ ~Contains(case_file["identification"]["topGuess"], FALL_ARMYWORM)
        /\ case_file["threatProfile"]["threatLevel"] = "HIGH"

\* the text after the first "is a " up to the next " (" or the end
AfterFirstIsA(identification) ==
    LET rest == Slice(identification, Find(identification, IS_A) + Len(IS_A),
                      Len(identification))
        paren == Find(rest, PAREN)
    IN  IF paren = 0 THEN rest ELSE Slice(rest, 1, paren - 1)

\* C10: update_case_file_with_identification sets commonName to "Unknown"
\* when the text has no "is a ", and otherwise to the text after the first
\* "is a " up to the next " (" or the end of the text (compared without the
\* white space around it), also when "is a " occurs more than once.
C10_CommonName ==
    [][call'.tool = "update_case_file_with_identification"
         => LET identification == call'.identification
            IN  CaseFileOf(state')["identification"]["commonName"]
                  = IF Contains(identification, IS_A)
                    THEN Strip(AfterFirstIsA(identification))
                    ELSE UNKNOWN_NAME]_vars

\* the call is a generate_and_send_report that reaches the write and upload:
\* every section of the report is in the CaseFile
Publishing ==
    /\ call'.tool = "generate_and_send_report"
    /\ \A k \in ReportSections : Present(CaseFileOf(state), k)

\* C11: a generate_and_send_report call sets status Reported if and only if
\* its upload succeeded; when the write or the upload fails the call returns an
\* error result, leaves the CaseFile as it was and sends no email and opens no
\* ticket.
C11_ReportingAtomic ==
    [][Publishing
         => IF "report_published" \in effects'
            THEN /\ ret'.status = "success"
                 /\ StatusOf(state') = ReportedStatus
            ELSE /\ ret'.status = "error"
                 /\ CaseFileOf(state') = CaseFileOf(state)
                 /\ effects' \cap {"email", "ticket"} = {}]_vars

\* C12: a tool call that fails, by returning an error result or by an
\* exception of the service it calls, leaves the CaseFile in the session as it
\* was before the call.
C12_AllOrNothing ==
    [][ret'.status # "success" => CaseFileOf(state') = CaseFileOf(state)]_vars

\* the forecast query has failed on a CaseFile that holds a location written
\* by update_case_file_with_location at other coordinates than the call's
C12_Witness ==
    /\ call.tool = "get_weather_forecast"
    /\ ret.status = "error"
    /\ Present(CaseFileOf(state), "location")
    /\ "description" \in DOMAIN CaseFileOf(state)["location"]
    /\ CaseFileOf(state)["location"]["lat"] # call.latitude

ReportCaseId(case_file) == Get(case_file, "caseId", "N/A")

\* C14: no tool but create_case_file changes or removes the caseId of the
\* session's CaseFile, and the caseId in the heading of a report on a created
\* CaseFile is the one create_case_file generated last.
C14_CaseIdImmutable ==
    [][/\ call'.tool # "create_case_file" => CaseIdOf(state') = CaseIdOf(state)
       /\ (/\ call'.tool = "generate_and_send_report"
           /\ ret'.status = "success"
           /\ uuids > 0)
            => ReportCaseId(CaseFileOf(state)) = uuids]_vars

\* a created CaseFile has gone through location, identification, threat
\* analysis and risk assessment and has been reported under its caseId
C14_Witness ==
    /\ call.tool = "generate_and_send_report"
    /\ ret.status = "success"
    /\ uuids = 1
    /\ CaseIdOf(state) = 1
    /\ "description" \in DOMAIN CaseFileOf(state)["location"]

\* C15: in a session that holds no CaseFile no tool but create_case_file
\* stores one, and every CaseFile in the session has a caseId, an imageUri and
\* a status.
C15_OnlyCreationCreates ==
    [][/\ ("caseFile" \notin DOMAIN state /\ call'.tool # "create_case_file")
            => "caseFile" \notin DOMAIN state'
       /\ "caseFile" \in DOMAIN state'
            => {"caseId", "imageUri", "status"} \subseteq DOMAIN CaseFileOf(state')]_vars

\* C16: whoever read the CaseFile from the session before a tool call still
\* sees, in the dict it was given, the values it read: no tool writes into the
\* dict that was in the session when it started.
C16_CopyOnWrite ==
    reader.held => reader.observes = reader.obtained

\* the location of the session's CaseFile, None when it has none
LocationOf(s) == Get(CaseFileOf(s), "location", None)

\* C17: no tool but update_case_file_with_location changes the location of
\* a CaseFile (create_case_file starts another CaseFile): get_weather_forecast
\* and update_case_file_with_risk_assessment leave description, lat and lon
\* as update_case_file_with_location wrote them.
C17_LocationFrame ==
    [][call'.tool \notin {"update_case_file_with_location", "create_case_file"}
         => (Present(CaseFileOf(state), "location") => LocationOf(state') = LocationOf(state))]_vars

\* statusNZ, threatLevel and hosts of a threat profile
ClassificationOf(profile) == <<profile["statusNZ"], profile["threatLevel"], profile["hosts"]>>

\* C18: when cross_reference_biosecurity_databases runs again on a CaseFile
\* whose identification.topGuess is the one its threatProfile was written for,
\* the new threatProfile has the same statusNZ, threatLevel and hosts,
\* whatever summary get_mpi_summary stored in between.
C18_ClassificationIdempotent ==
    [][(Classified /\ Present(CaseFileOf(state), "threatProfile"))
         => ClassificationOf(CaseFileOf(state')["threatProfile"])
              = ClassificationOf(CaseFileOf(state)["threatProfile"])]_vars

\* a pest has been classified HIGH with one summary and get_mpi_summary has
\* stored another summary since: the classification is about to run again
C18_Witness ==
    /\ call.tool = "get_mpi_summary"
    /\ ret.status = "success"
    /\ Present(CaseFileOf(state), "threatProfile")
    /\ CaseFileOf(state)["threatProfile"]["mpi_summary"] \in Summaries
    /\ CaseFileOf(state)["threatProfile"]["mpi_summary"] # state["mpi_summary"]
    /\ CaseFileOf(state)["threatProfile"]["threatLevel"] = "HIGH"

\* the place in sub_agents of the agent the tool belongs to
StageOf(tool) ==
    CASE tool \in {"identify_insect_with_google_search",
                   "update_case_file_with_identification"} -> 1
      [] tool \in {"get_mpi_summary", "cross_reference_biosecurity_databases"} -> 2
      [] tool \in {"get_weather_forecast", "update_case_file_with_risk_assessment"} -> 3
      [] tool = "generate_and_send_report" -> 4

\* C19: in a run of analysis_pipeline_agent the tool calls of identification
\* come before those of threat analysis, those before the calls of risk
\* assessment, and those before reporting: no stage starts before the one
\* before it has finished and none runs again once a later stage has started;
\* the calls are made by the agent whose turn it is, and the run works on one
\* CaseFile: its caseId does not change during the run.
C19_FixedStageOrder ==
    /\ [](\A i, j \in DOMAIN pipeline.invoked :
             i < j => StageOf(pipeline.invoked[i]) <= StageOf(pipeline.invoked[j]))
    /\ [][pipeline'.invoked # pipeline.invoked
            => /\ pipeline.pc = sub_agents[StageOf(call'.tool)]
               /\ CaseIdOf(state') = CaseIdOf(state)]_vars

\* a run has gone through the four stages, seven tool calls, and has reported
C19_Witness ==
    /\ pipeline.pc = "done"
    /\ Len(pipeline.invoked) = 7
    /\ pipeline.invoked[1] = "identify_insect_with_google_search"
    /\ pipeline.invoked[7] = "generate_and_send_report"
    /\ StatusOf(state) = ReportedStatus

\* the compass bearing, clockwise from north, of the point (x, y) east and
\* north of the observer: exact on the axes and the diagonals, else the whole
\* degrees of its octant
Bearing(x, y) ==
    CASE x = 0 /\ y > 0 -> {0}
      [] x > 0 /\ y > 0 -> IF x < y THEN 1 .. 44 ELSE IF x = y THEN {45} ELSE 46 .. 89
      [] x > 0 /\ y = 0 -> {90}
      [] x > 0 /\ y < 0 -> IF -y < x THEN 91 .. 134 ELSE IF -y = x THEN {135} ELSE 136 .. 179
      [] x = 0 /\ y < 0 -> {180}
      [] x < 0 /\ y < 0 -> IF -x < -y THEN 181 .. 224 ELSE IF x = y THEN {225} ELSE 226 .. 269
      [] x < 0 /\ y = 0 -> {270}
      [] x < 0 /\ y > 0 -> IF y < -x THEN 271 .. 314 ELSE IF y = -x THEN {315} ELSE 316 .. 359

\* C20: the wind direction of a forecast row lies in [0, 360) and, unless the
\* wind is calm, is the meteorological direction: the bearing of where the
\* wind (u, v) comes from, 0 = north, clockwise; for u = 0, v = -5 it is 0.
C20_WindDirection ==
    \A i \in DOMAIN forecasts :
       "wind_direction_degrees" \in DOMAIN forecasts[i]
         => LET u == forecasts[i].u_component_of_wind
                v == forecasts[i].v_component_of_wind
                direction == forecasts[i].wind_direction_degrees
            IN  /\ direction >= 0 /\ direction < 360
                /\ (u # 0 \/ v # 0) => direction \in Bearing(-u, -v)
                /\ (u = 0 /\ v = -5) => direction = 0

\* the query has answered with a row of wind straight from the north
C20_Witness ==
    /\ call.tool = "get_weather_forecast"
    /\ Len(forecasts) = 1
    /\ "wind_direction_degrees" \in DOMAIN forecasts[1]
    /\ forecasts[1].u_component_of_wind = 0
    /\ forecasts[1].v_component_of_wind = -5
    /\ forecasts[1].wind_direction_degrees = 0

\* C21: the mpi_summary of a threatProfile that
\* cross_reference_biosecurity_databases writes is the text a get_mpi_summary
\* call returned for this case's species after this case was created: not a
\* summary fetched for an earlier case of the session or for another species.
C21_SummaryOfOwnCase ==
    [][(Classified /\ "caseId" \in DOMAIN CaseFileOf(state))
         => LET case_file == CaseFileOf(state)
                profile == CaseFileOf(state')["threatProfile"]
            IN  /\ "mpi_summary" \in DOMAIN state
                /\ profile["mpi_summary"] = state["mpi_summary"]
                /\ summary_of.caseId = case_file["caseId"]
                /\ summary_of.species_name = case_file["identification"]["topGuess"]]_vars

\* C22: a CaseFile whose status is Reported holds identification,
\* threatProfile, riskAssessment and location, none of them None: when the
\* status is written and after every tool call that follows.
C22_ReportedIsComplete ==
    StatusOf(state) = ReportedStatus
      => \A k \in ReportSections : Present(CaseFileOf(state), k)

\* a reported CaseFile has had its location rewritten by a later forecast
C22_Witness ==
    /\ StatusOf(state) = ReportedStatus
    /\ call.tool = "get_weather_forecast"
    /\ ret.status = "success"
    /\ "description" \notin DOMAIN CaseFileOf(state)["location"]

\* the key of the CaseFile the tool writes
OwnKey(tool) ==
    CASE tool = "update_case_file_with_identification" -> "identification"
      [] tool = "cross_reference_biosecurity_databases" -> "threatProfile"
      [] tool = "update_case_file_with_risk_assessment" -> "riskAssessment"
      [] tool = "generate_and_send_report" -> "status"

\* C23: update_case_file_with_identification,
\* cross_reference_biosecurity_databases, update_case_file_with_risk_assessment
\* and generate_and_send_report change at most their own key of the CaseFile
\* (identification, threatProfile, riskAssessment, status): every other key
\* that was there is there afterwards with the value it had, and no other key
\* is added, also when the stage runs again.
C23_FieldLevelUpdates ==
    [][call'.tool \in {"update_case_file_with_identification",
                       "cross_reference_biosecurity_databases",
                       "update_case_file_with_risk_assessment",
                       "generate_and_send_report"}
         => LET before == CaseFileOf(state)
                after == CaseFileOf(state')
                own == OwnKey(call'.tool)
            IN  /\ DOMAIN before \subseteq DOMAIN after
                /\ DOMAIN after \subseteq DOMAIN before \cup {own}
                /\ \A k \in DOMAIN before \ {own} : after[k] = before[k]]_vars

\* the identification of a created case has been written again, with
\* another species, after the case was classified as the fall armyworm and
\* its risk assessed
C23_Witness ==
    /\ call.tool = "update_case_file_with_identification"
    /\ CaseIdOf(state) = 1
    /\ Present(CaseFileOf(state), "threatProfile")
    /\ Present(CaseFileOf(state), "riskAssessment")
    /\ CaseFileOf(state)["threatProfile"]["hosts"] = ArmywormHosts
    /\ Contains(CaseFileOf(state)["identification"]["topGuess"], HALYOMORPHA)

\* whether the lower-case word occurs in the text at some place, each letter
\* in either case
OccursInAnyCase(text, word) ==
    \E start \in 1 .. Len(text) :
       /\ start + Len(word) - 1 <= Len(text)
       /\ \A i \in 1 .. Len(word) : LowerChar(text[start + i - 1]) = word[i]

\* C24: update_case_file_with_risk_assessment stores the narrative unchanged
\* as summary and writes nearbyAssets as ["vineyards"], once, when the
\* narrative contains "vineyards" in any letter case, once or more often, and
\* as the empty list otherwise.
C24_NearbyAssets ==
    [][call'.tool = "update_case_file_with_risk_assessment"
         => LET narrative == call'.risk_assessment
                section == CaseFileOf(state')["riskAssessment"]
            IN  /\ section["summary"] = narrative
                /\ section["nearbyAssets"]
                     = IF OccursInAnyCase(narrative, KW_VINEYARDS)
                       THEN << "vineyards" >>
                       ELSE << >>]_vars

\* a narrative that names "Vineyards" with a capital has been stored
C24_Witness ==
    /\ call.tool = "update_case_file_with_risk_assessment"
    /\ Present(CaseFileOf(state), "riskAssessment")
    /\ CaseFileOf(state)["riskAssessment"]["summary"] = RiskHighVineyards
    /\ CaseFileOf(state)["riskAssessment"]["nearbyAssets"] = << "vineyards" >>

====
